---- MODULE Spec2Model ----
(***************************************************************************)
(* Model of src/src/utils.cpp of deadbeef-lyricbar: the lyrics cache       *)
(* (cached_filename, is_cached, load_cached_lyrics, save_cached_lyrics),   *)
(* the script provider, update_lyrics (one detached thread per host        *)
(* event), is_playing and remove_from_cache_action.                        *)
(*                                                                         *)
(* A C string is a sequence of one-character strings; a pointer that may   *)
(* be NULL and an optional<ustring> are both a sequence of length 0        *)
(* (NULL / empty optional) or 1 (the value).                               *)
(***************************************************************************)
EXTENDS Integers, Sequences, FiniteSets

VARIABLES
    meta,       \* host: track -> the metadata fields pl_find_meta reads
    playing,    \* host: streamer_get_playing_track(), a track or NoTrack
    customcmd,  \* host configuration "lyricbar.customcmd"
    plLock,     \* owner of the host playlist lock (pl_lock), or NoThread
    files,      \* filesystem: path -> content, for the files that exist
    uiQueue,    \* idle callbacks queued by set_lyrics, oldest first
    displayed,  \* what the lyrics view shows: <<>> or <<[track, text]>>
    pc,         \* update_lyrics thread -> its position
    wtrack,     \* update_lyrics thread -> its argument tr
    artist,     \* update_lyrics thread -> local `artist` (NULL or a string)
    title,      \* update_lyrics thread -> local `title`
    lyrics,     \* update_lyrics thread -> the provider's result
    hist,       \* update_lyrics thread -> what this call has done so far
    freed,      \* the <<thread, field>> whose pointer the host has freed since it was read
    mpc,        \* remove_from_cache_action: its position
    selected,   \* host: the tracks pl_is_selected answers true for
    playlist,   \* host: plt_get_curr(), NULL or the current playlist's items in order
    current,    \* remove_from_cache_action: local `current`, a playlist index or 0
    mrefs,      \* references the plugin holds: per track, on the playlist, on the playing track
    mhist,      \* remove_from_cache_action: what this call has done so far
    call,       \* the last direct call of a cache function, with its result
    everPut     \* the identities save_cached_lyrics was called for directly

resolveVars == <<pc, wtrack, artist, title, lyrics, hist, freed>>
actionVars == <<mpc, selected, playlist, current, mrefs, mhist>>
callVars == <<call, everPut>>
hostVars == <<meta, playing, customcmd>>
vars == <<meta, playing, customcmd, plLock, files, uiQueue, displayed,
          pc, wtrack, artist, title, lyrics, hist, freed,
          mpc, selected, playlist, current, mrefs, mhist, call, everPut>>

----------------------------------------------------------------------------
(* Values *)

NULL == <<>>
Some(v) == <<v>>
IsSome(o) == Len(o) = 1
Value(o) == o[1]

NoTrack == "NoTrack"
NoThread == "NoThread"
Tracks == {"X", "Y"}
Workers == {"w1", "w2"}

\* The messages update_lyrics hands to set_lyrics besides lyrics.
LoadingText == <<"Loading...">>
NotFoundText == <<"Lyrics not found">>

----------------------------------------------------------------------------
(* The cache: cached_filename, is_cached, load/save_cached_lyrics *)

\* std::replace(s.begin(), s.end(), from, to)
Replace(s, from, to) == [i \in DOMAIN s |-> IF s[i] = from THEN to ELSE s[i]]

\* The cache directory, with its trailing slash ("c" stands for the
\* components of <cache home>/deadbeef/lyrics).
lyrics_dir == <<"/", "c", "/">>

cached_filename_title_unreplaced(a, t) == lyrics_dir \o Replace(a, "/", "_") \o <<"-">> \o t

cached_filename(a, t) ==
    lyrics_dir \o Replace(a, "/", "_") \o <<"-">> \o Replace(t, "/", "_")

\* access(path, F_OK) == 0
access(fs, path) == path \in DOMAIN fs

\* is_cached(artist, title): artist and title are pointers (NULL or a string).
is_cached(fs, a, t) ==
    /\ IsSome(a)
    /\ IsSome(t)
    /\ access(fs, cached_filename(Value(a), Value(t)))

load_cached_lyrics_missing_as_empty(fs, a, t, readOk) ==
    LET filename == cached_filename(a, t)
    IN  IF access(fs, filename) /\ readOk THEN Some(fs[filename]) ELSE Some(<<>>)

load_cached_lyrics_error_as_empty(fs, a, t, readOk) ==
    LET filename == cached_filename(a, t)
    IN  IF ~access(fs, filename) THEN NULL
        ELSE IF readOk THEN Some(fs[filename]) ELSE Some(<<>>)

\* file_get_contents succeeds (readOk) or throws FileError; a missing file
\* always throws.  The result is the optional load_cached_lyrics returns.
load_cached_lyrics(fs, a, t, readOk) ==
    LET filename == cached_filename(a, t)
    IN  IF access(fs, filename) /\ readOk THEN Some(fs[filename]) ELSE NULL

\* s with the file at path holding text (created or truncated and rewritten)
WriteFile(fs, path, text) ==
    [p \in DOMAIN fs \cup {path} |-> IF p = path THEN text ELSE fs[p]]

Prefixes(text) == {SubSeq(text, 1, n) : n \in 0..Len(text)}

\* What reaches the file when the stream opened: all of text, or, when the
\* write or the flush in the destructor fails, a proper prefix of it.
Written(text, writeOk) ==
    IF writeOk THEN {text} ELSE Prefixes(text) \ {text}

save_cached_lyrics_no_write(fs, a, t, text, openOk, writeOk) ==
    {[fs |-> fs, ret |-> openOk]}

\* save_cached_lyrics: the outcomes [fs, ret] of one call.  openOk: the
\* ofstream opened; the stream state after `t << lyrics` is not looked at.
save_cached_lyrics(fs, a, t, text, openOk, writeOk) ==
    LET filename == cached_filename(a, t)
    IN  IF ~openOk
        THEN {[fs |-> fs, ret |-> FALSE]}
        ELSE {[fs |-> WriteFile(fs, filename, w), ret |-> TRUE] :
                 w \in Written(text, writeOk)}

\* remove(path): unlinks the file when it succeeds
remove(fs, path, ok) ==
    IF ok /\ path \in DOMAIN fs
    THEN [p \in DOMAIN fs \ {path} |-> fs[p]]
    ELSE fs

----------------------------------------------------------------------------
(* The script provider *)

\* ustring::validate(): the bytes are valid UTF-8. "xFF" stands for a byte
\* that is not.
validate(s) == \A i \in DOMAIN s : s[i] # "xFF"

\* What the host and the subprocess can answer to one call.
ScriptOutputs == {<<>>, <<"h">>, <<"xFF">>}
ScriptEnvs ==
    {e \in [compiles : BOOLEAN, command_len : {-1, 0, 1}, throws : BOOLEAN,
            exits : BOOLEAN, exit_status : {0, 1}, script_output : ScriptOutputs] :
        \* nothing is evaluated without a compiled template, nothing spawned
        \* without a command line, and an empty command line cannot be
        \* spawned; a spawn that throws leaves no child, no status and no
        \* output, and so does a child that never exits
        /\ ~e.compiles => e.command_len = -1
        /\ e.command_len <= 0 => e.throws
        /\ e.throws => e.exits /\ e.exit_status = 1 /\ e.script_output = <<>>
        /\ ~e.exits => e.exit_status = 1 /\ e.script_output = <<>>}

script_spawns_unevaluated(cmd, e) == cmd # <<>> /\ e.compiles

\* Whether the call reaches spawn_command_line_sync.
script_spawns(cmd, e) == cmd # <<>> /\ e.compiles /\ e.command_len >= 0

\* Whether spawn_command_line_sync, once reached, comes back at all: it
\* waits for the child without a time limit.
script_returns(cmd, e) == script_spawns(cmd, e) => (e.throws \/ e.exits)

get_lyrics_from_script_any_exit(cmd, e) ==
    IF cmd = <<>> \/ ~e.compiles \/ e.command_len < 0 \/ e.throws THEN NULL
    ELSE IF e.script_output = <<>> \/ ~validate(e.script_output) THEN NULL
    ELSE Some(e.script_output)

get_lyrics_from_script_unvalidated(cmd, e) ==
    IF cmd = <<>> \/ ~e.compiles \/ e.command_len < 0 \/ e.throws THEN NULL
    ELSE IF e.script_output = <<>> \/ e.exit_status # 0 THEN NULL
    ELSE Some(e.script_output)

get_lyrics_from_script(cmd, e) ==
    IF cmd = <<>> THEN NULL
    ELSE IF ~e.compiles THEN NULL
    ELSE IF e.command_len < 0 THEN NULL
    ELSE IF e.throws THEN NULL
    ELSE IF e.script_output = <<>> \/ e.exit_status # 0 THEN NULL
    ELSE IF ~validate(e.script_output) THEN NULL
    ELSE Some(e.script_output)

----------------------------------------------------------------------------
(* The host and the UI *)

is_playing_any(pl_track, track) == pl_track # NoTrack

\* The references after is_playing in terms of those before: one taken by
\* streamer_get_playing_track() when it returns a track, and given back by
\* pl_item_unref(pl_track) before the comparison.
is_playing_refs(r, pl_track) ==
    IF pl_track = NoTrack THEN r
    ELSE [[r EXCEPT !.playing = @ + 1] EXCEPT !.playing = @ - 1]

\* is_playing(track), pl_track being what streamer_get_playing_track returns
is_playing(pl_track, track) ==
    IF pl_track = NoTrack THEN FALSE ELSE pl_track = track

get_lyrics_from_metadata_lyrics_first(m) ==
    IF IsSome(m.lyrics) THEN m.lyrics
    ELSE IF IsSome(m.UNSYNCEDLYRICS) THEN m.UNSYNCEDLYRICS
    ELSE m.unsynced_lyrics

get_lyrics_from_metadata_none(m) == NULL

\* get_lyrics_from_metadata: the first tag present, in the order of the ?: chain
get_lyrics_from_metadata(m) ==
    IF IsSome(m.unsynced_lyrics) THEN m.unsynced_lyrics
    ELSE IF IsSome(m.UNSYNCEDLYRICS) THEN m.UNSYNCEDLYRICS
    ELSE m.lyrics

\* set_lyrics(track, text): queues an idle callback for the UI thread.
set_lyrics(q, track, text) == Append(q, [track |-> track, text |-> text])

MaxQueue == 1

\* No subprocess was asked for: the fields are the ones of ScriptEnvs.
NoEnv == [compiles |-> FALSE, command_len |-> -1, throws |-> TRUE, exits |-> TRUE,
          exit_status |-> 1, script_output |-> <<>>]

\* What a call of update_lyrics has done: the texts it handed to set_lyrics,
\* how load_cached_lyrics ended ("none": not called), how often a provider
\* was called and with what answer of the host, how save_cached_lyrics
\* ended, its steps in their order, how often it reached
\* spawn_command_line_sync, and the files it read and wrote.
NoHist == [pushes |-> <<>>, loaded |-> "none", provs |-> 0, env |-> NoEnv,
           saved |-> "none", steps |-> <<>>, spawned |-> 0,
           readKey |-> NULL, writeKey |-> NULL]

\* h after step `step` that hands text to set_lyrics
Pushed(h, step, text) ==
    [h EXCEPT !.pushes = Append(@, text), !.steps = Append(@, step)]

\* Bytes that are neither the old value of a field nor its new one.
Garbage == <<"?">>

\* What converting the const char * of thread w's local f ("artist" or
\* "title") to a string reads: the characters the field had when the pointer
\* was taken, as long as the host has not replaced the field; after that
\* the memory is freed and the read yields the old characters, the new
\* value's, or other bytes.
Deref(w, f) ==
    LET p == IF f = "artist" THEN artist[w] ELSE title[w]
        now == IF f = "artist" THEN meta[wtrack[w]].artist ELSE meta[wtrack[w]].title
    IN  IF <<w, f>> \notin freed
        THEN {Value(p)}
        ELSE {Value(p), Garbage} \cup (IF IsSome(now) THEN {Value(now)} ELSE {})

\* The host reports an event for track t (it starts playing, or its info
\* changed while playing) and starts update_lyrics(t) on a thread of its own.
HostEvent(w, t) ==
    /\ pc[w] = "idle"
    /\ playing' = t
    /\ pc' = [pc EXCEPT ![w] = "meta_lock"]
    /\ wtrack' = [wtrack EXCEPT ![w] = t]
    /\ UNCHANGED <<artist, title, lyrics, hist, freed>>
    /\ UNCHANGED <<meta, customcmd, plLock, files, uiQueue, displayed, actionVars, callVars>>

\* The thread the host starts next: the threads are interchangeable, so
\* the first idle one of ws.
FreeWorker(ws) ==
    CHOOSE w \in ws : pc[w] = "idle" /\ \A v \in ws : pc[v] = "idle" => ~(v \in {"w1"} /\ w # "w1")

HostEvents(ws) ==
    /\ \E w \in ws : pc[w] = "idle"
    /\ \E t \in Tracks : HostEvent(FreeWorker(ws), t)

\* Playback stops: no track is playing.
HostStop ==
    /\ playing # NoTrack
    /\ playing' = NoTrack
    /\ UNCHANGED <<meta, customcmd, plLock, files, uiQueue, displayed, resolveVars, actionVars, callVars>>

\* The threads whose pointers into track t's metadata are in use: those
\* between the read of artist and title and the end of update_lyrics.
PointerHolders(t) ==
    {w \in Workers : wtrack[w] = t /\ pc[w] \in {"load", "provider", "spawned", "save"}}

\* The host replaces field f ("artist" or "title") of track t by v, under
\* the playlist lock: the string the field held is freed.
HostEdit(t, f, v) ==
    /\ plLock = NoThread
    /\ meta[t][f] # Some(v)
    /\ meta' = [meta EXCEPT ![t][f] = Some(v)]
    /\ freed' = freed \cup {<<w, f>> : w \in PointerHolders(t)}
    /\ UNCHANGED <<playing, customcmd, plLock, files, uiQueue, displayed,
                   pc, wtrack, artist, title, lyrics, hist, actionVars, callVars>>

\* The UI thread runs the oldest idle callback: it shows the text if the
\* callback's track is still the playing one and drops it otherwise.
UiIdle ==
    /\ uiQueue # <<>>
    /\ uiQueue' = Tail(uiQueue)
    /\ displayed' = IF is_playing(playing, Head(uiQueue).track)
                    THEN Some(Head(uiQueue))
                    ELSE displayed
    /\ UNCHANGED <<hostVars, plLock, files, resolveVars, actionVars, callVars>>

----------------------------------------------------------------------------
(* update_lyrics, one action per step of a thread w *)

\* pl_lock_guard guard; in get_lyrics_from_metadata
MetaLock(w) ==
    /\ pc[w] = "meta_lock"
    /\ plLock = NoThread
    /\ plLock' = w
    /\ pc' = [pc EXCEPT ![w] = "meta_read"]
    /\ UNCHANGED <<hostVars, files, uiQueue, displayed, wtrack, artist, title, lyrics, hist, freed, actionVars, callVars>>

\* The tags are read and the guard released; on a hit the text is pushed
\* and update_lyrics returns.
MetaRead(w) ==
    /\ pc[w] = "meta_read"
    /\ plLock' = NoThread
    /\ LET found == get_lyrics_from_metadata(meta[wtrack[w]])
           h == [hist[w] EXCEPT !.steps = Append(@, "metadata")]
       IN  IF IsSome(found)
           THEN /\ Len(uiQueue) < MaxQueue
                /\ uiQueue' = set_lyrics(uiQueue, wtrack[w], Value(found))
                /\ hist' = [hist EXCEPT ![w] = Pushed(h, "push_found", Value(found))]
                /\ pc' = [pc EXCEPT ![w] = "done"]
           ELSE /\ pc' = [pc EXCEPT ![w] = "id_lock"]
                /\ hist' = [hist EXCEPT ![w] = h]
                /\ UNCHANGED uiQueue
    /\ UNCHANGED <<hostVars, files, displayed, wtrack, artist, title, lyrics, freed, actionVars, callVars>>

\* pl_lock_guard guard; in the block that reads artist and title
IdLock(w) ==
    /\ pc[w] = "id_lock"
    /\ plLock = NoThread
    /\ plLock' = w
    /\ pc' = [pc EXCEPT ![w] = "id_read"]
    /\ UNCHANGED <<hostVars, files, uiQueue, displayed, wtrack, artist, title, lyrics, hist, freed, actionVars, callVars>>

\* artist and title are set to what pl_find_meta returns, pointers into the
\* track's metadata, the guard is released, and without both "Lyrics not
\* found" is pushed.
IdRead(w) ==
    LET a == meta[wtrack[w]].artist
        t == meta[wtrack[w]].title
    IN  /\ pc[w] = "id_read"
        /\ plLock' = NoThread
        /\ artist' = [artist EXCEPT ![w] = a]
        /\ title' = [title EXCEPT ![w] = t]
        /\ IF IsSome(a) /\ IsSome(t)
           THEN /\ pc' = [pc EXCEPT ![w] = "load"]
                /\ UNCHANGED <<uiQueue, hist>>
           ELSE /\ Len(uiQueue) < MaxQueue
                /\ uiQueue' = set_lyrics(uiQueue, wtrack[w], NotFoundText)
                /\ hist' = [hist EXCEPT ![w] = Pushed(@, "push_notfound", NotFoundText)]
                /\ pc' = [pc EXCEPT ![w] = "done"]
        /\ UNCHANGED <<hostVars, files, displayed, wtrack, lyrics, freed, actionVars, callVars>>

Load_without_return(w) ==
    /\ pc[w] = "load"
    /\ Len(uiQueue) < MaxQueue
    /\ \E a \in Deref(w, "artist"), t \in Deref(w, "title"), readOk \in BOOLEAN :
        LET got == load_cached_lyrics(files, a, t, readOk)
            h == [hist[w] EXCEPT !.steps = Append(@, "cache_read"),
                                 !.readKey = Some(cached_filename(a, t)),
                                 !.loaded = IF ~access(files, cached_filename(a, t)) THEN "miss"
                                            ELSE IF readOk THEN "hit" ELSE "error"]
        IN  /\ uiQueue' = set_lyrics(uiQueue, wtrack[w], IF IsSome(got) THEN Value(got) ELSE LoadingText)
            /\ hist' = [hist EXCEPT ![w] =
                            IF IsSome(got) THEN Pushed(h, "push_found", Value(got))
                            ELSE Pushed(h, "push_loading", LoadingText)]
            /\ pc' = [pc EXCEPT ![w] = "provider"]
    /\ UNCHANGED <<hostVars, plLock, files, displayed, wtrack, artist, title, lyrics, freed, actionVars, callVars>>

\* load_cached_lyrics(artist, title), the two pointers being read for the
\* file name: a hit is pushed and update_lyrics returns; on a miss
\* "Loading..." is pushed.
Load(w) ==
    /\ pc[w] = "load"
    /\ Len(uiQueue) < MaxQueue
    /\ \E a \in Deref(w, "artist"), t \in Deref(w, "title"), readOk \in BOOLEAN :
        LET got == load_cached_lyrics(files, a, t, readOk)
            h == [hist[w] EXCEPT !.steps = Append(@, "cache_read"),
                                 !.readKey = Some(cached_filename(a, t)),
                                 !.loaded = IF ~access(files, cached_filename(a, t)) THEN "miss"
                                            ELSE IF readOk THEN "hit" ELSE "error"]
        IN  IF IsSome(got)
            THEN /\ uiQueue' = set_lyrics(uiQueue, wtrack[w], Value(got))
                 /\ hist' = [hist EXCEPT ![w] = Pushed(h, "push_found", Value(got))]
                 /\ pc' = [pc EXCEPT ![w] = "done"]
            ELSE /\ uiQueue' = set_lyrics(uiQueue, wtrack[w], LoadingText)
                 /\ hist' = [hist EXCEPT ![w] = Pushed(h, "push_loading", LoadingText)]
                 /\ pc' = [pc EXCEPT ![w] = "provider"]
    /\ UNCHANGED <<hostVars, plLock, files, displayed, wtrack, artist, title, lyrics, freed, actionVars, callVars>>

\* The loop over providers, which holds get_lyrics_from_script alone: its
\* result is pushed, or "Lyrics not found" when it has none.  A child that
\* never exits leaves the thread in spawn_command_line_sync.
Provider(w) ==
    /\ pc[w] = "provider"
    /\ \E e \in (IF customcmd = <<>> THEN {NoEnv} ELSE ScriptEnvs) :
        LET got == get_lyrics_from_script(customcmd, e)
            h == [hist[w] EXCEPT !.steps = Append(@, "provider"),
                                 !.provs = @ + 1,
                                 !.env = e,
                                 !.spawned = @ + (IF script_spawns(customcmd, e) THEN 1 ELSE 0)]
        IN  IF ~script_returns(customcmd, e)
            THEN /\ pc' = [pc EXCEPT ![w] = "spawned"]
                 /\ hist' = [hist EXCEPT ![w] = h]
                 /\ UNCHANGED <<lyrics, uiQueue>>
            ELSE /\ Len(uiQueue) < MaxQueue
                 /\ lyrics' = [lyrics EXCEPT ![w] = got]
                 /\ IF IsSome(got)
                    THEN /\ uiQueue' = set_lyrics(uiQueue, wtrack[w], Value(got))
                         /\ hist' = [hist EXCEPT ![w] = Pushed(h, "push_found", Value(got))]
                         /\ pc' = [pc EXCEPT ![w] = "save"]
                    ELSE /\ uiQueue' = set_lyrics(uiQueue, wtrack[w], NotFoundText)
                         /\ hist' = [hist EXCEPT ![w] = Pushed(h, "push_notfound", NotFoundText)]
                         /\ pc' = [pc EXCEPT ![w] = "done"]
    /\ UNCHANGED <<hostVars, plLock, files, displayed, wtrack, artist, title, freed, actionVars, callVars>>

\* save_cached_lyrics(artist, title, *lyrics), the two pointers being read
\* again for its string arguments; its result is dropped.
Save(w) ==
    /\ pc[w] = "save"
    /\ \E a \in Deref(w, "artist"), t \in Deref(w, "title"),
          openOk \in BOOLEAN, writeOk \in BOOLEAN :
        \E r \in save_cached_lyrics(files, a, t, Value(lyrics[w]), openOk, writeOk) :
            /\ files' = r.fs
            /\ hist' = [hist EXCEPT ![w].steps = Append(@, "cache_write"),
                                    ![w].writeKey = Some(cached_filename(a, t)),
                                    ![w].saved =
                                        IF ~openOk THEN "openfail"
                                        ELSE IF writeOk THEN "ok" ELSE "writefail"]
    /\ pc' = [pc EXCEPT ![w] = "done"]
    /\ UNCHANGED <<hostVars, plLock, uiQueue, displayed, wtrack, artist, title, lyrics, freed, actionVars, callVars>>

\* update_lyrics has returned: its thread ends and its locals are gone.
Return(w) ==
    /\ pc[w] = "done"
    /\ pc' = [pc EXCEPT ![w] = "idle"]
    /\ wtrack' = [wtrack EXCEPT ![w] = NoTrack]
    /\ artist' = [artist EXCEPT ![w] = NULL]
    /\ title' = [title EXCEPT ![w] = NULL]
    /\ lyrics' = [lyrics EXCEPT ![w] = NULL]
    /\ hist' = [hist EXCEPT ![w] = NoHist]
    /\ freed' = {x \in freed : x[1] # w}
    /\ UNCHANGED <<hostVars, plLock, files, uiQueue, displayed, actionVars, callVars>>

update_lyrics(w) ==
    \/ MetaLock(w)
    \/ MetaRead(w)
    \/ IdLock(w)
    \/ IdRead(w)
    \/ Load(w)
    \/ Provider(w)
    \/ Save(w)
    \/ Return(w)

----------------------------------------------------------------------------
(* remove_from_cache_action, run by the thread "action" *)

ActionThread == "action"

\* The track at index i of the current playlist, in PL_MAIN order.
Item(i) == Value(playlist)[i]

\* plt_get_first / pl_get_next as playlist indexes, 0 for NULL
plt_get_first == IF Len(Value(playlist)) > 0 THEN 1 ELSE 0
pl_get_next_skipping(i) == IF i + 1 < Len(Value(playlist)) THEN i + 2 ELSE 0
pl_get_next(i) == IF i < Len(Value(playlist)) THEN i + 1 ELSE 0

\* The references the plugin holds: plt_get_curr, plt_get_first,
\* pl_get_next and streamer_get_playing_track each add one to what they
\* return (nothing for NULL); pl_item_unref and plt_unref give one back.
NoRefs == [plt |-> 0, item |-> [t \in Tracks |-> 0], playing |-> 0]
RefItem(r, i) == IF i = 0 THEN r ELSE [r EXCEPT !.item[Item(i)] = @ + 1]
UnrefItem_kept(r, i) == r
UnrefItem(r, i) == [r EXCEPT !.item[Item(i)] = @ - 1]
RefPlaylist(r) == [r EXCEPT !.plt = @ + 1]
UnrefPlaylist(r) == [r EXCEPT !.plt = @ - 1]

\* What a call of the action has done: its context, how often the loop body
\* ran for each track, the tracks whose remove() succeeded and those whose
\* remove() failed, and whether it used an item it held no reference on.
NoMHist == [ctx |-> "none", visits |-> [t \in Tracks |-> 0], removed |-> {},
            failed |-> {}, stale |-> FALSE]

\* h after a use of item i (pl_is_selected, pl_find_meta and the strings it
\* returns, pl_get_next) while the references are r
Touched(h, r, i) == [h EXCEPT !.stale = @ \/ r.item[Item(i)] <= 0]

\* h after the loop body is entered with `current` = i (not at NULL)
Visited(h, r, i) ==
    IF i = 0 THEN h ELSE [Touched(h, r, i) EXCEPT !.visits[Item(i)] = @ + 1]

loop_at_any_item(i, sel) ==
    IF i = 0 THEN "m_unref"
    ELSE IF IsSome(meta[Item(i)].artist) /\ IsSome(meta[Item(i)].title)
         THEN "m_access"
         ELSE "m_next"

\* Where the loop goes with `current` = i: out of the loop at NULL, to
\* is_cached's access() for a selected item with artist and title (is_cached
\* answers false before any access() without both), else on to the next item.
loop_at(i, sel) ==
    IF i = 0 THEN "m_unref"
    ELSE IF Item(i) \in sel
            /\ IsSome(meta[Item(i)].artist) /\ IsSome(meta[Item(i)].title)
         THEN "m_access"
         ELSE "m_next"

\* The host runs the action with context ctx while the tracks in sel are
\* selected and pl is the current playlist.
ActionInvoke(ctx, sel, pl) ==
    /\ mpc = "idle"
    /\ selected' = sel
    /\ playlist' = pl
    /\ mhist' = [NoMHist EXCEPT !.ctx = ctx]
    /\ mpc' = IF ctx = "DDB_ACTION_CTX_SELECTION" THEN "m_lock" ELSE "m_done"
    /\ UNCHANGED <<hostVars, plLock, files, uiQueue, displayed, resolveVars, current, mrefs, callVars>>

\* pl_lock_guard guard;
ActionLock ==
    /\ mpc = "m_lock"
    /\ plLock = NoThread
    /\ plLock' = ActionThread
    /\ mpc' = "m_first"
    /\ UNCHANGED <<hostVars, files, uiQueue, displayed, resolveVars, selected, playlist, current, mrefs, mhist, callVars>>

\* plt_get_curr() and, with a playlist, plt_get_first()
ActionFirst ==
    /\ mpc = "m_first"
    /\ IF IsSome(playlist)
       THEN /\ current' = plt_get_first
            /\ mrefs' = RefItem(RefPlaylist(mrefs), plt_get_first)
            /\ mhist' = Visited(mhist, mrefs', plt_get_first)
            /\ mpc' = loop_at(plt_get_first, selected)
       ELSE /\ mpc' = "m_unlock"
            /\ UNCHANGED <<current, mrefs, mhist>>
    /\ UNCHANGED <<hostVars, plLock, files, uiQueue, displayed, resolveVars, selected, playlist, callVars>>

\* is_cached(artist, title) with both present: access()
ActionAccess ==
    /\ mpc = "m_access"
    /\ mpc' = IF is_cached(files, meta[Item(current)].artist, meta[Item(current)].title)
              THEN "m_remove" ELSE "m_next"
    /\ mhist' = Touched(mhist, mrefs, current)
    /\ UNCHANGED <<hostVars, plLock, files, uiQueue, displayed, resolveVars, selected, playlist, current, mrefs, callVars>>

\* remove(cached_filename(artist, title).c_str()); its result is dropped
ActionRemove ==
    /\ mpc = "m_remove"
    /\ \E ok \in BOOLEAN :
        /\ files' = remove(files, cached_filename(Value(meta[Item(current)].artist),
                                                  Value(meta[Item(current)].title)), ok)
        /\ mhist' = [Touched(mhist, mrefs, current) EXCEPT
                        !.removed = IF ok THEN @ \cup {Item(current)} ELSE @,
                        !.failed = IF ok THEN @ ELSE @ \cup {Item(current)}]
    /\ mpc' = "m_next"
    /\ UNCHANGED <<hostVars, plLock, uiQueue, displayed, resolveVars, selected, playlist, current, mrefs, callVars>>

\* next = pl_get_next(current); pl_item_unref(current); current = next;
ActionNext ==
    /\ mpc = "m_next"
    /\ current' = pl_get_next(current)
    /\ mrefs' = UnrefItem(RefItem(mrefs, pl_get_next(current)), current)
    /\ mhist' = Visited(Touched(mhist, mrefs, current), mrefs', pl_get_next(current))
    /\ mpc' = loop_at(pl_get_next(current), selected)
    /\ UNCHANGED <<hostVars, plLock, files, uiQueue, displayed, resolveVars, selected, playlist, callVars>>

\* plt_unref(playlist);
ActionUnref ==
    /\ mpc = "m_unref"
    /\ mrefs' = UnrefPlaylist(mrefs)
    /\ mpc' = "m_unlock"
    /\ UNCHANGED <<hostVars, plLock, files, uiQueue, displayed, resolveVars, selected, playlist, current, mhist, callVars>>

\* The guard goes out of scope.
ActionUnlock ==
    /\ mpc = "m_unlock"
    /\ plLock' = NoThread
    /\ mpc' = "m_done"
    /\ UNCHANGED <<hostVars, files, uiQueue, displayed, resolveVars, selected, playlist, current, mrefs, mhist, callVars>>

\* return 0;
ActionReturn ==
    /\ mpc = "m_done"
    /\ mpc' = "idle"
    /\ current' = 0
    /\ UNCHANGED <<hostVars, plLock, files, uiQueue, displayed, resolveVars, selected, playlist, mrefs, mhist, callVars>>

remove_from_cache_action ==
    \/ ActionLock
    \/ ActionFirst
    \/ ActionAccess
    \/ ActionRemove
    \/ ActionNext
    \/ ActionUnref
    \/ ActionUnlock
    \/ ActionReturn

----------------------------------------------------------------------------
(* The plugin in the host: any number of events, one thread each *)

NoTags == [unsynced_lyrics |-> NULL, UNSYNCEDLYRICS |-> NULL, lyrics |-> NULL]
Tagged(m, a, t) == [unsynced_lyrics |-> m.unsynced_lyrics, UNSYNCEDLYRICS |-> m.UNSYNCEDLYRICS,
                    lyrics |-> m.lyrics, artist |-> a, title |-> t]

\* Two tracks without lyrics tags whose artists differ in '/' against '_'.
TwoTracks ==
    [t \in Tracks |->
        IF t = "X" THEN Tagged(NoTags, Some(<<"a", "/">>), Some(<<"b">>))
                   ELSE Tagged(NoTags, Some(<<"a", "_">>), Some(<<"b">>))]

Contexts == {"DDB_ACTION_CTX_MAIN", "DDB_ACTION_CTX_SELECTION"}

NoCall == [op |-> "none", a |-> NULL, t |-> NULL, text |-> NULL,
           retBool |-> FALSE, retText |-> NULL, ok |-> TRUE]

InitThreads ==
    /\ plLock = NoThread
    /\ uiQueue = <<>>
    /\ displayed = NULL
    /\ pc = [w \in Workers |-> "idle"]
    /\ wtrack = [w \in Workers |-> NoTrack]
    /\ artist = [w \in Workers |-> NULL]
    /\ title = [w \in Workers |-> NULL]
    /\ lyrics = [w \in Workers |-> NULL]
    /\ hist = [w \in Workers |-> NoHist]
    /\ freed = {}
    /\ mpc = "idle"
    /\ selected = {}
    /\ playlist = NULL
    /\ current = 0
    /\ mrefs = NoRefs
    /\ mhist = NoMHist
    /\ call = NoCall
    /\ everPut = {}

Init ==
    /\ meta = TwoTracks
    /\ playing = NoTrack
    /\ customcmd = <<"c">>
    /\ files = <<>>
    /\ InitThreads

\* Events in rapid succession: two update_lyrics threads and the UI thread.
Next ==
    \/ HostEvents(Workers)
    \/ UiIdle
    \/ \E w \in Workers : update_lyrics(w)

Spec == Init /\ [][Next]_vars

\* The menu action beside one update_lyrics thread.
NextAction ==
    \/ HostEvents({"w1"})
    \/ UiIdle
    \/ update_lyrics("w1")
    \/ \E ctx \in Contexts, sel \in SUBSET Tracks : ActionInvoke(ctx, sel, Some(<<"X", "Y">>))
    \/ remove_from_cache_action

SpecAction == Init /\ [][NextAction]_vars

----------------------------------------------------------------------------
(* One update_lyrics at a time, for a track X of any metadata *)

TagSets ==
    [unsynced_lyrics : {NULL, Some(<<>>), Some(<<"u">>)},
     UNSYNCEDLYRICS : {NULL, Some(<<"U">>)},
     lyrics : {NULL, Some(<<"l">>)}]

Metas ==
    {Tagged(g, a, t) : g \in TagSets,
                       a \in {NULL, Some(<<>>), Some(<<"a", "/">>)},
                       t \in {NULL, Some(<<>>), Some(<<"b">>)}}

OneFile(path, text) == [p \in {path} |-> text]

\* The cache before the call: empty, or holding an entry for the track.
FilesFor(m) ==
    {<<>>} \cup
    (IF IsSome(m.artist) /\ IsSome(m.title)
     THEN {OneFile(cached_filename(Value(m.artist), Value(m.title)), <<"k">>)}
     ELSE {OneFile(cached_filename(<<"z">>, <<"z">>), <<"k">>)})

InitResolve ==
    /\ meta \in {[TwoTracks EXCEPT !["X"] = m] : m \in Metas}
    /\ playing = NoTrack
    /\ customcmd \in {<<>>, <<"c">>}
    /\ files \in FilesFor(meta["X"])
    /\ InitThreads

NextResolve ==
    \/ HostEvents({"w1"})
    \/ HostStop
    \/ UiIdle
    \/ update_lyrics("w1")

SpecResolve == InitResolve /\ [][NextResolve]_vars

----------------------------------------------------------------------------
(* The cache functions called directly, one call after another *)

\* The artists and titles of the calls: the empty string, and '/', '_' and
\* '-' where cached_filename treats them.
ArtistNames == {<<>>, <<"/">>, <<"_">>, <<"-">>}
TitleNames == {<<>>, <<"-">>}
Pointers(names) == {NULL} \cup {Some(n) : n \in names}
Texts == {<<"h">>, <<"k">>}

\* How many identities save_cached_lyrics is called for in one run.
MaxPuts == 1

\* save_cached_lyrics(a, t, text)
CallPut(a, t, text) ==
    /\ <<a, t>> \in everPut \/ Cardinality(everPut) < MaxPuts
    /\ \E openOk \in BOOLEAN, writeOk \in BOOLEAN :
        \E r \in save_cached_lyrics(files, a, t, text, openOk, writeOk) :
            /\ files' = r.fs
            /\ call' = [op |-> "Put", a |-> Some(a), t |-> Some(t), text |-> Some(text),
                        retBool |-> r.ret, retText |-> NULL, ok |-> openOk /\ writeOk]
    /\ everPut' = everPut \cup {<<a, t>>}
    /\ UNCHANGED <<hostVars, plLock, uiQueue, displayed, resolveVars, actionVars>>

\* load_cached_lyrics(a, t)
CallGet(a, t) ==
    /\ \E readOk \in BOOLEAN :
        call' = [op |-> "Get", a |-> Some(a), t |-> Some(t), text |-> NULL,
                 retBool |-> FALSE, retText |-> load_cached_lyrics(files, a, t, readOk),
                 ok |-> readOk]
    /\ UNCHANGED <<hostVars, plLock, files, uiQueue, displayed, resolveVars, actionVars, everPut>>

\* is_cached(a, t), a and t being pointers
CallHas(a, t) ==
    /\ call' = [op |-> "Has", a |-> a, t |-> t, text |-> NULL,
                retBool |-> is_cached(files, a, t), retText |-> NULL, ok |-> TRUE]
    /\ UNCHANGED <<hostVars, plLock, files, uiQueue, displayed, resolveVars, actionVars, everPut>>

\* if (is_cached(a, t)) remove(cached_filename(a, t).c_str());
CallRemove(a, t) ==
    /\ \E ok \in BOOLEAN :
        /\ files' = IF is_cached(files, Some(a), Some(t))
                    THEN remove(files, cached_filename(a, t), ok)
                    ELSE files
        /\ call' = [op |-> "Remove", a |-> Some(a), t |-> Some(t), text |-> NULL,
                    retBool |-> FALSE, retText |-> NULL, ok |-> ok]
    /\ UNCHANGED <<hostVars, plLock, uiQueue, displayed, resolveVars, actionVars, everPut>>

InitCache ==
    /\ meta = TwoTracks
    /\ playing = NoTrack
    /\ customcmd = <<>>
    /\ files = <<>>
    /\ InitThreads

NextCache ==
    \/ \E a \in ArtistNames, t \in TitleNames, text \in Texts : CallPut(a, t, text)
    \/ \E a \in ArtistNames, t \in TitleNames : CallGet(a, t)
    \/ \E a \in Pointers(ArtistNames), t \in Pointers(TitleNames) : CallHas(a, t)
    \/ \E a \in ArtistNames, t \in TitleNames : CallRemove(a, t)

SpecCache == InitCache /\ [][NextCache]_vars

----------------------------------------------------------------------------
(* cached_filename alone, over every artist and title up to MaxLen *)

Chars == {"a", ".", "/", "_", "-"}
MaxLen == 2

RECURSIVE StringsUpTo(_)
StringsUpTo(n) ==
    IF n = 0 THEN {<<>>}
    ELSE LET S == StringsUpTo(n - 1)
         IN  S \cup {Append(x, c) : x \in S, c \in Chars}

KeyArgs(a, t) == [NoCall EXCEPT !.op = "args", !.a = Some(a), !.t = Some(t)]

InitKey ==
    /\ meta = TwoTracks
    /\ playing = NoTrack
    /\ customcmd = <<>>
    /\ files = <<>>
    /\ plLock = NoThread
    /\ uiQueue = <<>>
    /\ displayed = NULL
    /\ pc = [w \in Workers |-> "idle"]
    /\ wtrack = [w \in Workers |-> NoTrack]
    /\ artist = [w \in Workers |-> NULL]
    /\ title = [w \in Workers |-> NULL]
    /\ lyrics = [w \in Workers |-> NULL]
    /\ hist = [w \in Workers |-> NoHist]
    /\ freed = {}
    /\ mpc = "idle"
    /\ selected = {}
    /\ playlist = NULL
    /\ current = 0
    /\ mrefs = NoRefs
    /\ mhist = NoMHist
    /\ everPut = {}
    /\ call \in {KeyArgs(a, t) : a \in StringsUpTo(MaxLen), t \in StringsUpTo(MaxLen)}

\* cached_filename(a, t) for the arguments drawn
CallKey ==
    /\ call.op = "args"
    /\ call' = [call EXCEPT !.op = "cached_filename",
                            !.retText = Some(cached_filename(Value(call.a), Value(call.t)))]
    /\ UNCHANGED <<hostVars, plLock, files, uiQueue, displayed, resolveVars, actionVars, everPut>>

NextKey == CallKey

SpecKey == InitKey /\ [][NextKey]_vars

----------------------------------------------------------------------------
(* One update_lyrics at a time, every step of it taken in the end *)

TerminateMetas ==
    {m \in Metas : /\ m.unsynced_lyrics \in {NULL, Some(<<"u">>)}
                   /\ m.UNSYNCEDLYRICS = NULL
                   /\ m.lyrics = NULL
                   /\ m.artist \in {NULL, Some(<<"a", "/">>)}
                   /\ m.title = Some(<<"b">>)}

InitTerminate ==
    /\ meta \in {[TwoTracks EXCEPT !["X"] = m] : m \in TerminateMetas}
    /\ playing = NoTrack
    /\ customcmd \in {<<>>, <<"c">>}
    /\ files \in FilesFor(meta["X"])
    /\ InitThreads

\* The thread of update_lyrics keeps running and the UI thread keeps
\* running its idle callbacks.
SpecTerminate ==
    /\ InitTerminate
    /\ [][NextResolve]_vars
    /\ WF_vars(update_lyrics("w1"))
    /\ WF_vars(UiIdle)

----------------------------------------------------------------------------
(* The host retags tracks while update_lyrics runs *)

\* The values the host sets a field of t to: its first value and another.
EditValues(t, f) == {Value(TwoTracks[t][f]), <<"n">>}

\* The field the host retags; the title is read the same way.
EditFields == {"artist"}

HostEdits ==
    \E t \in Tracks, f \in EditFields :
        \E v \in EditValues(t, f) : HostEdit(t, f, v)

NextEdit ==
    \/ HostEvents({"w1"})
    \/ HostEdits
    \/ UiIdle
    \/ update_lyrics("w1")

SpecEdit == Init /\ [][NextEdit]_vars

----------------------------------------------------------------------------
(* The menu action alone, for any selection and playlist, and is_playing *)

Playlists == {NULL, Some(<<>>), Some(<<"X">>), Some(<<"X", "Y">>), Some(<<"Y", "X">>)}

\* X as in TwoTracks; Y with X's file name, with a file name of its own,
\* or without an artist.
MaintenanceMetas ==
    {[TwoTracks EXCEPT !["Y"] = Tagged(NoTags, a, t)] :
        a \in {NULL, Some(<<"a", "_">>)}, t \in {Some(<<"b">>), Some(<<"c">>)}}

\* The cache directory holding any of the tracks' files and one more.
CacheFiles ==
    {[p \in S |-> <<"k">>] :
        S \in SUBSET {cached_filename(<<"a", "/">>, <<"b">>),
                      cached_filename(<<"a", "_">>, <<"c">>),
                      cached_filename(<<"z">>, <<"z">>)}}

\* is_playing(track), called as the UI does
CallIsPlaying(track) ==
    /\ call' = [NoCall EXCEPT !.op = "is_playing", !.retBool = is_playing(playing, track)]
    /\ mrefs' = is_playing_refs(mrefs, playing)
    /\ UNCHANGED <<hostVars, plLock, files, uiQueue, displayed, resolveVars,
                   mpc, selected, playlist, current, mhist, everPut>>

InitMaintenance ==
    /\ meta \in MaintenanceMetas
    /\ playing \in Tracks \cup {NoTrack}
    /\ customcmd = <<>>
    /\ files \in CacheFiles
    /\ InitThreads

NextMaintenance ==
    \/ \E ctx \in Contexts, sel \in SUBSET Tracks, pl \in Playlists : ActionInvoke(ctx, sel, pl)
    \/ remove_from_cache_action
    \/ \E t \in Tracks : CallIsPlaying(t)

\* The thread that runs the action keeps running.
SpecMaintenance ==
    /\ InitMaintenance
    /\ [][NextMaintenance]_vars
    /\ WF_vars(remove_from_cache_action)

----------------------------------------------------------------------------
(* Properties *)

Last(q) == q[Len(q)]
HasTag(m) == IsSome(m.unsynced_lyrics) \/ IsSome(m.UNSYNCEDLYRICS) \/ IsSome(m.lyrics)
\* The recognized tag first in the order "unsynced lyrics", "UNSYNCEDLYRICS", "lyrics"
FirstTag(m) ==
    IF IsSome(m.unsynced_lyrics) THEN Value(m.unsynced_lyrics)
    ELSE IF IsSome(m.UNSYNCEDLYRICS) THEN Value(m.UNSYNCEDLYRICS)
    ELSE Value(m.lyrics)
\* A step of thread w within a call of update_lyrics
StepOf(w) == pc[w] # "idle" /\ pc'[w] # pc[w]
InFlight(w) == pc[w] \notin {"idle", "done"}

C2_MetadataHitLeavesCache ==
    /\ [](\A w \in Workers :
            (pc[w] = "done" /\ HasTag(meta[wtrack[w]]))
                => /\ hist[w].pushes = <<FirstTag(meta[wtrack[w]])>>
                   /\ hist[w].loaded = "none"
                   /\ hist[w].provs = 0
                   /\ hist[w].saved = "none")
    /\ [][\A w \in Workers :
            (StepOf(w) /\ HasTag(meta[wtrack[w]])) => files' = files]_vars

\* The call ended on the second tag of the order while a later tag was
\* present too, the cache held an entry and a script was configured.
C2_Witness ==
    /\ pc["w1"] = "done"
    /\ wtrack["w1"] = "X"
    /\ ~IsSome(meta["X"].unsynced_lyrics)
    /\ IsSome(meta["X"].UNSYNCEDLYRICS)
    /\ IsSome(meta["X"].lyrics)
    /\ IsSome(meta["X"].artist) /\ IsSome(meta["X"].title)
    /\ access(files, cached_filename(Value(meta["X"].artist), Value(meta["X"].title)))
    /\ customcmd # <<>>
    /\ hist["w1"].pushes = <<<<"U">>>>

\* The case of C3 and C4: no tag, artist and title read, no cache file when
\* load_cached_lyrics looked.
CacheMiss(w) ==
    /\ pc[w] = "done"
    /\ ~HasTag(meta[wtrack[w]])
    /\ hist[w].loaded = "miss"

\* load_cached_lyrics(artist, title) of w's track, the read succeeding
GetNow(w) == load_cached_lyrics(files, Value(artist[w]), Value(title[w]), TRUE)

\* C3 as stated: after a cache miss and a provider result L the call ends
\* with Found(L) pushed last and Get((A,T)) returns exactly L.
C3_ProviderResultCached ==
    \A w \in Workers :
        (CacheMiss(w) /\ IsSome(lyrics[w]))
            => /\ Last(hist[w].pushes) = Value(lyrics[w])
               /\ GetNow(w) = lyrics[w]

\* C3 amended: the call pushes "Loading..." and then L, which is what is on
\* display once the UI has run while the track still plays; Get((A,T))
\* returns exactly L when save_cached_lyrics opened and wrote the file, and
\* there is still no entry when the file could not be opened.
C3_ProviderResultCachedWhenWritten ==
    \A w \in Workers :
        (CacheMiss(w) /\ IsSome(lyrics[w]))
            => /\ hist[w].pushes = <<LoadingText, hist[w].env.script_output>>
               /\ (uiQueue = <<>> /\ playing = wtrack[w])
                    => displayed = Some([track |-> wtrack[w], text |-> hist[w].env.script_output])
               /\ hist[w].saved = "ok"
                    => GetNow(w) = Some(hist[w].env.script_output)
               /\ hist[w].saved = "openfail" => GetNow(w) = NULL

\* Artist "a/", title "b": the script's "h" is on display and stored under a_-b.
C3_Witness ==
    /\ CacheMiss("w1")
    /\ artist["w1"] = Some(<<"a", "/">>)
    /\ title["w1"] = Some(<<"b">>)
    /\ hist["w1"].saved = "ok"
    /\ files = OneFile(lyrics_dir \o <<"a", "_", "-", "b">>, <<"h">>)
    /\ displayed = Some([track |-> "X", text |-> <<"h">>])

\* What C4 counts as every provider yielding absent.
NoScriptResult(cmd, e) ==
    \/ cmd = <<>>
    \/ e.exit_status # 0
    \/ e.script_output = <<>>
    \/ \E i \in DOMAIN e.script_output : e.script_output[i] = "xFF"

\* C4: after a cache miss, with no script configured or a script that exits
\* non-zero or prints nothing or prints invalid text, the call ends with
\* "Lyrics not found" pushed last, has not called save_cached_lyrics, leaves
\* no cache entry, and none of its steps changes a file.
C4_NotFoundLeavesCache ==
    /\ [](\A w \in Workers :
            (CacheMiss(w) /\ hist[w].provs = 1 /\ NoScriptResult(customcmd, hist[w].env))
                => /\ hist[w].pushes = <<LoadingText, NotFoundText>>
                   /\ hist[w].saved = "none"
                   /\ GetNow(w) = NULL)
    /\ [][\A w \in Workers :
            (StepOf(w) /\ hist'[w].saved = "none") => files' = files]_vars

\* The script ran, printed "h" and exited with status 1.
C4_Witness ==
    /\ CacheMiss("w1")
    /\ customcmd # <<>>
    /\ hist["w1"].provs = 1
    /\ ~hist["w1"].env.throws
    /\ hist["w1"].env.exit_status = 1
    /\ hist["w1"].env.script_output = <<"h">>

\* The file name a path of the cache directory ends in
NameIn(path) == SubSeq(path, Len(lyrics_dir) + 1, Len(path))

\* C5: the path cached_filename returns is the cache directory followed by
\* a name without '/', which is neither empty nor "." nor "..": a direct
\* child of the cache directory.
C5_KeyHasNoSlash ==
    call.op = "cached_filename"
        => LET path == Value(call.retText)
           IN  /\ SubSeq(path, 1, Len(lyrics_dir)) = lyrics_dir
               /\ \A i \in DOMAIN NameIn(path) : NameIn(path)[i] # "/"
               /\ NameIn(path) \notin {<<>>, <<".">>, <<".", ".">>}

\* cached_filename("..", "//")
C5_Witness ==
    /\ call.op = "cached_filename"
    /\ call.a = Some(<<".", ".">>)
    /\ call.t = Some(<<"/", "/">>)

\* C6: when save_cached_lyrics(id, text) returned true, the next call, if
\* it is is_cached(id), returns true, and if it is load_cached_lyrics(id)
\* whose read does not fail, returns exactly text.
C6_PutThenGet ==
    [][(/\ call.op = "Put" /\ call.retBool
        /\ call'.op \in {"Get", "Has"}
        /\ call'.a = call.a /\ call'.t = call.t
        /\ call'.ok)
            => IF call'.op = "Get" THEN call'.retText = call.text ELSE call'.retBool]_vars

\* The identity the last call was for
CallId == <<Value(call.a), Value(call.t)>>

\* No write has failed part way: every file holds a text written whole.
WholeFiles == \A p \in DOMAIN files : files[p] \in Texts

\* C7 as stated: load_cached_lyrics for an identity save_cached_lyrics was
\* never called for returns absent (here even with every write whole).
C7_NeverPutIsAbsent ==
    (call.op = "Get" /\ CallId \notin everPut /\ WholeFiles) => call.retText = NULL

\* C7 amended: load_cached_lyrics for an identity whose file name is the
\* file name of no identity save_cached_lyrics was called for returns absent.
C7_NoKeyPutIsAbsent ==
    (/\ call.op = "Get"
     /\ \A id \in everPut : cached_filename(id[1], id[2]) # cached_filename(CallId[1], CallId[2]))
        => call.retText = NULL

\* A file written for ("/", "") is there and ("-", "") is asked for.
C7_Witness ==
    /\ call.op = "Get"
    /\ call.ok
    /\ CallId = <<<<"-">>, <<>>>>
    /\ everPut = {<<<<"/">>, <<>>>>}
    /\ files # <<>>

\* C8: is_cached answers true exactly when artist and title are both
\* present and not empty and the file of the derived name exists (here
\* even with every write whole).
C8_HasIffNonEmptyAndFile ==
    (call.op = "Has" /\ WholeFiles)
        => (call.retBool <=>
                /\ IsSome(call.a) /\ IsSome(call.t)
                /\ Value(call.a) # <<>> /\ Value(call.t) # <<>>
                /\ access(files, cached_filename(Value(call.a), Value(call.t))))

\* C9: two calls of update_lyrics for the same track are never both at the
\* provider call or at save_cached_lyrics.
C9_NoDuplicateWork ==
    \A w \in Workers, v \in Workers :
        (w # v /\ wtrack[w] = wtrack[v])
            => ~(pc[w] \in {"provider", "save"} /\ pc[v] \in {"provider", "save"})

\* C10: no thread is at a filesystem call or at the subprocess spawn while
\* it holds the playlist lock.
C10_NoLockAcrossIO ==
    /\ \A w \in Workers : pc[w] \in {"load", "provider", "save"} => plLock # w
    /\ mpc \in {"m_access", "m_remove"} => plLock # ActionThread

\* C11: get_lyrics_from_script has returned a value exactly when the command
\* template is not empty, compiled, evaluated without error, the spawn did
\* not throw, the exit status is zero, and the output is not empty and is
\* valid UTF-8; the value is then the captured output itself.
C11_ScriptResultIff ==
    \A w \in Workers :
        (hist[w].provs = 1 /\ pc[w] \in {"save", "done"})
            => LET e == hist[w].env
               IN  /\ IsSome(lyrics[w]) <=>
                        /\ customcmd # <<>>
                        /\ e.compiles
                        /\ e.command_len >= 0
                        /\ ~e.throws
                        /\ e.exit_status = 0
                        /\ e.script_output # <<>>
                        /\ \A i \in DOMAIN e.script_output : e.script_output[i] # "xFF"
                   /\ IsSome(lyrics[w]) => Value(lyrics[w]) = e.script_output

\* The script printed "h" and exited with status 0: "h" is the result.
C11_Witness ==
    /\ pc["w1"] = "save"
    /\ hist["w1"].env.exit_status = 0
    /\ hist["w1"].env.script_output = <<"h">>
    /\ lyrics["w1"] = Some(<<"h">>)

\* The tracks of the current playlist, and how often t is on it
OnPlaylist == IF IsSome(playlist) THEN {Item(i) : i \in DOMAIN Value(playlist)} ELSE {}
Occurrences(t) ==
    IF IsSome(playlist) THEN Cardinality({i \in DOMAIN Value(playlist) : Item(i) = t}) ELSE 0
HasIdentity(t) == IsSome(meta[t].artist) /\ IsSome(meta[t].title)
\* The cache file of a track with artist and title
KeyOf(t) == cached_filename(Value(meta[t].artist), Value(meta[t].title))
\* The playlist's selected tracks that have artist and title
SelectedWithIdentity == {t \in selected \cap OnPlaylist : HasIdentity(t)}
BySelection == mhist.ctx = "DDB_ACTION_CTX_SELECTION"

\* C12: the action invoked on a selection gets from its first step to its
\* end; at its end the loop body has run once for each item of the playlist,
\* and a selected track with artist and title still has its cache file only
\* if a remove() of that file failed, whatever failed before it.
C12_ActionCompletes ==
    /\ []((mpc = "m_done" /\ BySelection)
            => /\ \A t \in Tracks : mhist.visits[t] = Occurrences(t)
               /\ \A t \in SelectedWithIdentity :
                    access(files, KeyOf(t)) => \E f \in mhist.failed : KeyOf(f) = KeyOf(t)
               /\ plLock # ActionThread)
    /\ (mpc = "m_lock") ~> (mpc = "m_done")

\* Both tracks selected, files of their own: remove() failed for X, the
\* first item, and Y's file was removed after it.
C12_Witness ==
    /\ mpc = "m_done"
    /\ playlist = Some(<<"X", "Y">>)
    /\ selected = {"X", "Y"}
    /\ mhist.failed = {"X"}
    /\ mhist.removed = {"Y"}
    /\ KeyOf("X") # KeyOf("Y")
    /\ access(files, KeyOf("X"))
    /\ ~access(files, KeyOf("Y"))

IsPrefix(p, q) == Len(p) <= Len(q) /\ SubSeq(q, 1, Len(p)) = p
Count(q, x) == Cardinality({i \in DOMAIN q : q[i] = x})

\* The orders of the steps of one call
OnTag == <<"metadata", "push_found">>
OnNoIdentity == <<"metadata", "push_notfound">>
OnCacheHit == <<"metadata", "cache_read", "push_found">>
OnProviderHit ==
    <<"metadata", "cache_read", "push_loading", "provider", "push_found", "cache_write">>
OnProviderMiss ==
    <<"metadata", "cache_read", "push_loading", "provider", "push_notfound">>

\* C13: the steps of a call so far are the beginning of one of the five
\* orders: tag lookup, cache read, "Loading...", provider, result, cache
\* write.  With a lyrics tag nothing follows the push of the tag; after a
\* cache hit no provider is called; the provider is called at most once;
\* and the cache is written only after the provider's result was pushed.
C13_StepsInOrder ==
    \A w \in Workers :
        pc[w] # "idle"
            => LET st == hist[w].steps
               IN  /\ \E o \in {OnTag, OnNoIdentity, OnCacheHit, OnProviderHit, OnProviderMiss} :
                        IsPrefix(st, o)
                   /\ HasTag(meta[wtrack[w]]) => IsPrefix(st, OnTag)
                   /\ hist[w].loaded = "hit" => IsPrefix(st, OnCacheHit)
                   /\ Count(st, "provider") <= 1 /\ Count(st, "provider") = hist[w].provs
                   /\ hist[w].saved # "none"
                        => /\ st = OnProviderHit
                           /\ Last(hist[w].pushes) = Value(lyrics[w])

\* A call went through every step: tag lookup, cache read, "Loading...",
\* the script, its result, the cache write.
C13_Witness ==
    /\ pc["w1"] = "done"
    /\ hist["w1"].steps = OnProviderHit
    /\ hist["w1"].saved = "ok"

Kind(text) ==
    IF text = LoadingText THEN "Loading"
    ELSE IF text = NotFoundText THEN "NotFound" ELSE "Found"
Kinds(q) == [i \in DOMAIN q |-> Kind(q[i])]

\* What a call has pushed: at its end one of the four sequences, before it
\* nothing or "Loading..." alone, and nothing after the final result.
PushesInShape(w) ==
    LET k == Kinds(hist[w].pushes)
    IN  /\ pc[w] = "done"
            => k \in {<<"Found">>, <<"NotFound">>,
                      <<"Loading", "Found">>, <<"Loading", "NotFound">>}
        /\ pc[w] = "save" => k = <<"Loading", "Found">>
        /\ pc[w] \notin {"idle", "done", "save"} => k \in {<<>>, <<"Loading">>}

\* C14 as stated: every call of update_lyrics gets to its end, having pushed
\* [Found], [NotFound], [Loading, Found] or [Loading, NotFound].
C14_ResolveTerminates ==
    /\ [](\A w \in Workers : PushesInShape(w))
    /\ \A w \in {"w1"} : (pc[w] = "meta_lock") ~> (pc[w] = "done")

\* C14 amended: every call gets to its end unless the command it spawned
\* never exits, in which case it has pushed "Loading..." alone and waits; at
\* its end it has pushed one of the four sequences.
C14_ResolveTerminatesIfChildExits ==
    /\ [](\A w \in Workers : PushesInShape(w))
    /\ [](\A w \in Workers :
            pc[w] = "spawned"
                => /\ ~hist[w].env.exits
                   /\ hist[w].pushes = <<LoadingText>>)
    /\ \A w \in {"w1"} : (pc[w] = "meta_lock") ~> (pc[w] \in {"done", "spawned"})

\* The command ran and exited with nothing printed: [Loading, NotFound].
C14_Witness ==
    /\ pc["w1"] = "done"
    /\ hist["w1"].spawned = 1
    /\ hist["w1"].env.exits
    /\ ~hist["w1"].env.throws
    /\ hist["w1"].pushes = <<LoadingText, NotFoundText>>

\* A field that is absent or the empty string
Missing(field) == ~IsSome(field) \/ Value(field) = <<>>

\* C15: a call for a track without lyrics tag whose artist or title is
\* absent or empty ends having pushed "Lyrics not found" alone, without
\* cache read, provider call or cache write.
C15_MissingIdentityIsNotFound ==
    \A w \in Workers :
        (/\ pc[w] = "done"
         /\ ~HasTag(meta[wtrack[w]])
         /\ Missing(meta[wtrack[w]].artist) \/ Missing(meta[wtrack[w]].title))
            => /\ hist[w].pushes = <<NotFoundText>>
               /\ hist[w].loaded = "none"
               /\ hist[w].provs = 0
               /\ hist[w].saved = "none"

\* C16: after a cache read that found no file or failed, the provider is
\* still called; after a cache write that failed, the provider's text is
\* the last push and is what the view shows once the UI has run while the
\* track plays; after a provider without result "Lyrics not found" is the
\* last push; and a call that ended has pushed a final result last.
C16_FailuresDegrade ==
    \A w \in Workers :
        pc[w] = "done"
            => /\ hist[w].loaded \in {"miss", "error"} => hist[w].provs = 1
               /\ hist[w].saved \in {"openfail", "writefail"}
                    => /\ Last(hist[w].pushes) = hist[w].env.script_output
                       /\ (uiQueue = <<>> /\ playing = wtrack[w])
                            => displayed = Some([track |-> wtrack[w],
                                                 text |-> hist[w].env.script_output])
               /\ (hist[w].provs = 1 /\ ~IsSome(lyrics[w]))
                    => Last(hist[w].pushes) = NotFoundText
               /\ hist[w].pushes # <<>>
               /\ Kind(Last(hist[w].pushes)) \in {"Found", "NotFound"}

\* The cache file was there but could not be read, the script printed "h",
\* the file could not be opened for writing: "h" is on display.
C16_Witness ==
    /\ pc["w1"] = "done"
    /\ hist["w1"].loaded = "error"
    /\ hist["w1"].saved = "openfail"
    /\ displayed = Some([track |-> "X", text |-> <<"h">>])

\* C17: with an empty command template, one that does not compile or one
\* whose evaluation fails, the provider call reaches no spawn, has no
\* result, and the call ends with "Lyrics not found".
C17_NoSpawnWithoutCommand ==
    \A w \in Workers :
        (/\ hist[w].provs = 1
         /\ \/ customcmd = <<>>
            \/ ~hist[w].env.compiles
            \/ hist[w].env.command_len < 0)
            => /\ hist[w].spawned = 0
               /\ pc[w] = "done"
               /\ ~IsSome(lyrics[w])
               /\ Last(hist[w].pushes) = NotFoundText

\* The template compiled and its evaluation failed.
C17_Witness ==
    /\ pc["w1"] = "done"
    /\ customcmd # <<>>
    /\ hist["w1"].provs = 1
    /\ hist["w1"].env.compiles
    /\ hist["w1"].env.command_len < 0

\* C18: the file update_lyrics reads and the file it writes are the ones
\* named by the artist and title it read while it held the playlist lock.
C18_KeysFromValuesReadUnderLock ==
    \A w \in Workers :
        LET key == Some(cached_filename(Value(artist[w]), Value(title[w])))
        IN  /\ IsSome(hist[w].readKey) => hist[w].readKey = key
            /\ IsSome(hist[w].writeKey) => hist[w].writeKey = key

\* The files the action may remove: those of the playlist's selected tracks
SelectedKeys == {KeyOf(t) : t \in SelectedWithIdentity}

\* C19 as stated: no step changes the cache entry of a track that is not
\* selected, and with another context than the selection no file changes.
C19_UnselectedEntriesUnchanged ==
    [][/\ \A u \in Tracks \ selected :
            HasIdentity(u)
                => /\ access(files', KeyOf(u)) <=> access(files, KeyOf(u))
                   /\ access(files, KeyOf(u)) => files'[KeyOf(u)] = files[KeyOf(u)]
       /\ ~BySelection => files' = files]_vars

\* C19 amended: a step creates no file and changes none; the files it
\* removes are files of selected tracks of the playlist, in a call whose
\* context is the selection.
C19_OnlySelectedKeysRemoved ==
    [][/\ DOMAIN files' \subseteq DOMAIN files
       /\ \A p \in DOMAIN files :
            IF p \in DOMAIN files'
            THEN files'[p] = files[p]
            ELSE BySelection /\ p \in SelectedKeys]_vars

\* X alone selected, Y with a file of its own: X's file was removed, Y's
\* and the third file are still there.
C19_Witness ==
    /\ mpc = "m_done"
    /\ playlist = Some(<<"Y", "X">>)
    /\ selected = {"X"}
    /\ mhist.removed = {"X"}
    /\ HasIdentity("Y")
    /\ KeyOf("X") # KeyOf("Y")
    /\ access(files, KeyOf("Y"))
    /\ ~access(files, KeyOf("X"))
    /\ access(files, cached_filename(<<"z">>, <<"z">>))

\* C20: the plugin never gives back a reference it does not hold, uses no
\* item it holds no reference on, holds no reference when the action has
\* returned, and none on the playing track once is_playing has returned.
C20_ReferencesBalanced ==
    /\ mrefs.plt \in {0, 1}
    /\ \A t \in Tracks : mrefs.item[t] \in {0, 1}
    /\ ~mhist.stale
    /\ mpc \in {"idle", "m_done"} => mrefs = NoRefs
    /\ mrefs.playing = 0

\* The action went through a playlist of two items and is_playing answered
\* true for the playing track.
C20_Witness ==
    /\ mpc = "m_done"
    /\ playlist = Some(<<"Y", "X">>)
    /\ mhist.visits = [t \in Tracks |-> 1]
    /\ call.op = "is_playing"
    /\ call.retBool

====
